---- MODULE Spec2Model ----
(***************************************************************************)
(* The Joy of Painting importer (data_importer.py) and its read-only HTTP  *)
(* API (app.py).  Text values are sequences of one-character strings, so   *)
(* that strip(), split(';') and int() are computed, not assumed.           *)
(***************************************************************************)
EXTENDS Integers, Sequences, FiniteSets, TLC

VARIABLES
    pc,                     \* position of main() / import_data()
    conn,                   \* DatabaseManager.connection: "none", "open", "closed"
    db,                     \* committed rows of every table
    tx,                     \* rows inserted on the importer's connection, not yet committed
    auto,                   \* AUTO_INCREMENT counter of every table with a surrogate key
    colors_data,            \* import_data locals
    subject_matters_data,
    dates_data,
    idx,                    \* position of the for loop of the running phase
    subject_matters,        \* the set built by _import_subject_matters, minus what is inserted
    error,                  \* the exception in flight or swallowed, "none" if none
    failed_phase,           \* the phase in which the exception was raised
    commits,                \* history: the connection.commit() calls that succeeded, in order
    inserted,               \* history: rows whose cursor.execute succeeded in this run
    db0,                    \* history: the committed rows when main() started
    csv_file,               \* CSVReader.read_file on its own: the file's rows,
    csv_columns,            \*   the columns argument (<<>> for None, else <<list>>),
    csv_opened,             \*   whether open() and decoding succeed,
    csv_result,             \*   and what the call produced
    request,                \* the last HTTP request handled by app.py
    response                \* and its response

vars == <<pc, conn, db, tx, auto, colors_data, subject_matters_data, dates_data, idx,
          subject_matters, error, failed_phase, commits, inserted, db0,
          csv_file, csv_columns, csv_opened, csv_result, request, response>>

importVars == <<pc, conn, db, tx, auto, colors_data, subject_matters_data, dates_data, idx,
                subject_matters, error, failed_phase, commits, inserted, db0>>
csvVars == <<csv_file, csv_columns, csv_opened, csv_result>>
apiVars == <<request, response>>

(***************************************************************************)
(* Bounds                                                                  *)
(***************************************************************************)
MaxColorRows == 2
MaxSubjectRows == 2
MaxDateRows == 2
MaxCsvRows == 3
MaxEpisodeId == 3

(***************************************************************************)
(* Python built-ins the importer relies on                                 *)
(***************************************************************************)
None == <<>>
Some(x) == <<x>>

Range(s) == {s[i] : i \in 1..Len(s)}

SeqsUpTo(S, n) == UNION {[1..k -> S] : k \in 0..n}

Whitespace == {" ", "\t"}
Digits == {"0", "1", "2", "3", "4", "5", "6", "7", "8", "9"}

RECURSIVE lstrip(_)
lstrip(s) == IF s # <<>> /\ Head(s) \in Whitespace THEN lstrip(Tail(s)) ELSE s

RECURSIVE rstrip(_)
rstrip(s) ==
    IF s # <<>> /\ s[Len(s)] \in Whitespace THEN rstrip(SubSeq(s, 1, Len(s) - 1)) ELSE s

\* str.strip()
strip(s) == rstrip(lstrip(s))

\* str.split(sep) for a one-character separator: never empty, "" splits to [""]
RECURSIVE split(_, _)
split(s, sep) ==
    IF \A i \in 1..Len(s) : s[i] # sep
    THEN <<s>>
    ELSE LET i == CHOOSE k \in 1..Len(s) : s[k] = sep /\ \A j \in 1..(k - 1) : s[j] # sep
         IN  <<SubSeq(s, 1, i - 1)>> \o split(SubSeq(s, i + 1, Len(s)), sep)

DigitValue(c) ==
    CASE c = "0" -> 0 [] c = "1" -> 1 [] c = "2" -> 2 [] c = "3" -> 3 [] c = "4" -> 4
      [] c = "5" -> 5 [] c = "6" -> 6 [] c = "7" -> 7 [] c = "8" -> 8 [] c = "9" -> 9

RECURSIVE DigitsValue(_)
DigitsValue(s) ==
    IF s = <<>> THEN 0 ELSE 10 * DigitsValue(SubSeq(s, 1, Len(s) - 1)) + DigitValue(s[Len(s)])

Unsigned(s) == IF s # <<>> /\ Head(s) \in {"+", "-"} THEN Tail(s) ELSE s

\* int(s) raises ValueError unless s is, after stripping, an optional sign and digits
\* (over the characters the input rows use: no underscores, no non-ASCII digits)
IntRaises(s) ==
    LET u == Unsigned(strip(s)) IN u = <<>> \/ \E i \in 1..Len(u) : u[i] \notin Digits

\* int(s)
int(s) ==
    LET t == strip(s)
        v == DigitsValue(Unsigned(t))
    IN  IF t # <<>> /\ Head(t) = "-" THEN 0 - v ELSE v

\* dict(zip(columns, row)) for len(row) = len(columns): a repeated key keeps its last value
DictZip(columns, row) ==
    [c \in Range(columns) |->
        row[CHOOSE i \in 1..Len(columns) :
                columns[i] = c /\ \A j \in (i + 1)..Len(columns) : columns[j] # c]]

\* mutant: a row with surplus fields is kept, zip() dropping the surplus
RECURSIVE FilterRowsAtLeast(_, _)
FilterRowsAtLeast(rows, columns) ==
    IF rows = <<>> THEN <<>>
    ELSE (IF Len(Head(rows)) >= Len(columns) THEN <<DictZip(columns, Head(rows))>> ELSE <<>>)
         \o FilterRowsAtLeast(Tail(rows), columns)

RECURSIVE FilterRows(_, _)
FilterRows(rows, columns) ==
    IF rows = <<>> THEN <<>>
    ELSE (IF Len(Head(rows)) = Len(columns) THEN <<DictZip(columns, Head(rows))>> ELSE <<>>)
         \o FilterRows(Tail(rows), columns)

(***************************************************************************)
(* CSVReader.read_file: file is the sequence of rows csv.reader yields,    *)
(* columns is None or Some(list); opened is FALSE when open() fails.       *)
(***************************************************************************)
read_file(file, columns, opened) ==
    IF ~opened THEN [raised |-> "OSError", data |-> <<>>]
    ELSE IF columns = None
    THEN IF file = <<>>
         THEN [raised |-> "StopIteration", data |-> <<>>]
         ELSE [raised |-> "none", data |-> FilterRows(file, Head(file))]
    ELSE [raised |-> "none", data |-> FilterRows(file, columns[1])]

(***************************************************************************)
(* Schema (setup_tables) and the connection's transaction                  *)
(***************************************************************************)
Tables == {"episodes", "colors", "episode_colors", "subject_matters",
           "episode_subject_matters"}
KeyedTables == {"episodes", "colors", "subject_matters"}

EmptyTables == [t \in Tables |-> <<>>]

\* cursor.execute(INSERT ...): the row is pending on the connection
Execute(pending, table, row) == [pending EXCEPT ![table] = @ \o <<row>>]

\* connection.commit(): the pending rows become durable
Commit(committed, pending) == [t \in Tables |-> committed[t] \o pending[t]]

\* mutant: the two association importers exist (and insert nothing)
ImporterMethodsWithAssociations ==
    {"setup_tables", "import_data", "_import_episodes", "_import_colors",
     "_import_subject_matters", "_import_episode_colors", "_import_episode_subject_matters"}

\* the class body of DataImporter: the methods an instance has
ImporterMethods == {"setup_tables", "import_data", "_import_episodes", "_import_colors",
                    "_import_subject_matters"}

ColorsColumns == <<"painting_title", "season", "episode", "img_src", "youtube_src",
                   "colors", "color_hex">>
SubjectColumns == <<"EPISODE">>
DatesColumns == <<"Title", "Date">>

(***************************************************************************)
(* Input files drawn on: rows as csv.reader yields them                    *)
(***************************************************************************)
ColorFileRows ==
    { <<<<"A">>, <<"1">>, <<"1">>, <<"i">>, <<"y">>, <<"c">>, <<"#">>>>,
      <<<<"B">>, <<" ", "2">>, <<"3">>, <<"j">>, <<"z">>, <<"d">>, <<"#">>>>,
      <<<<"A">>, <<"1">>, <<"x">>, <<"i">>, <<"y">>, <<"c">>, <<"#">>>>,
      <<<<"A">>, <<"1">>, <<"1">>, <<"i">>, <<"y">>, <<"c">>>> }

SubjectFileRows ==
    { <<<<"a", ";", "b">>>>,
      <<<<" ", "a", ";", "a", ";">>>>,
      <<<<"a">>, <<"b">>>> }

DateFileRows ==
    { <<<<"A">>, <<"d">>>>,
      <<<<" ", "A", " ">>, <<"e">>>>,
      <<<<"A">>>> }

\* what a previous complete run over one-row files leaves behind
PriorRunTables ==
    [EmptyTables EXCEPT
        !["episodes"] = <<[episode_id |-> 1, title |-> <<"A">>, season_number |-> 1,
                           episode_number |-> 1, painting_img_src |-> <<"i">>,
                           painting_yt_src |-> <<"y">>, air_date |-> None]>>,
        !["colors"] = <<[color_id |-> 1, color_name |-> <<"c">>, color_hex |-> <<"#">>]>>,
        !["subject_matters"] =
            <<[subject_matter_id |-> 1, subject_matter_name |-> <<"a">>]>>]

NextIds(tables) == [t \in KeyedTables |-> Len(tables[t]) + 1]

(***************************************************************************)
(* main() and DataImporter                                                 *)
(***************************************************************************)
IdleCsv == csv_file = <<>> /\ csv_columns = None /\ csv_opened = FALSE /\ csv_result = None
IdleApi == request = None /\ response = None

Init ==
    /\ pc = "main"
    /\ conn = "none"
    /\ db \in {EmptyTables, PriorRunTables}
    /\ db0 = db
    /\ tx = EmptyTables
    /\ auto = NextIds(db)
    /\ colors_data = <<>>
    /\ subject_matters_data = <<>>
    /\ dates_data = <<>>
    /\ idx = 0
    /\ subject_matters = {}
    /\ error = "none"
    /\ failed_phase = "none"
    /\ commits = <<>>
    /\ inserted = EmptyTables
    /\ IdleCsv
    /\ IdleApi

\* an exception leaves the phase: the except clauses print and re-raise
Raise(exc, phase) ==
    /\ pc' = "raised"
    /\ error' = exc
    /\ failed_phase' = phase

\* DatabaseManager.__enter__ / connect
Connect ==
    /\ pc = "main"
    /\ \E ok \in BOOLEAN :
        IF ok
        THEN /\ conn' = "open"
             /\ pc' = "setup_tables"
             /\ UNCHANGED <<error, failed_phase>>
        ELSE \* __enter__ raised: the with block is never entered, __exit__ never runs
             /\ conn' = "none"
             /\ pc' = "except"
             /\ error' = "MySQLError"
             /\ failed_phase' = "connect"
    /\ UNCHANGED <<db, tx, auto, colors_data, subject_matters_data, dates_data, idx,
                   subject_matters, commits, inserted, db0>>
    /\ UNCHANGED <<csvVars, apiVars>>

\* DataImporter.__init__ -> setup_tables: CREATE TABLE IF NOT EXISTS keeps existing rows
SetupTables ==
    /\ pc = "setup_tables"
    /\ \E ok \in BOOLEAN :
        IF ok
        THEN /\ db' = Commit(db, tx)
             /\ tx' = EmptyTables
             /\ commits' = Append(commits, "schema")
             /\ pc' = "read_files"
             /\ UNCHANGED <<error, failed_phase>>
        ELSE /\ Raise("MySQLError", "schema")
             /\ UNCHANGED <<db, tx, commits>>
    /\ UNCHANGED <<conn, auto, colors_data, subject_matters_data, dates_data, idx,
                   subject_matters, inserted, db0>>
    /\ UNCHANGED <<csvVars, apiVars>>

\* import_data, the three read_file calls
ReadFiles ==
    /\ pc = "read_files"
    /\ \E cf \in SeqsUpTo(ColorFileRows, MaxColorRows),
          sf \in SeqsUpTo(SubjectFileRows, MaxSubjectRows),
          df \in SeqsUpTo(DateFileRows, MaxDateRows),
          opened \in BOOLEAN :
        LET c == read_file(cf, Some(ColorsColumns), opened)
            s == read_file(sf, Some(SubjectColumns), opened)
            d == read_file(df, Some(DatesColumns), opened)
        IN  IF c.raised = "none" /\ s.raised = "none" /\ d.raised = "none"
            THEN /\ colors_data' = c.data
                 /\ subject_matters_data' = s.data
                 /\ dates_data' = d.data
                 /\ pc' = "episodes"
                 /\ idx' = 1
                 /\ UNCHANGED <<error, failed_phase>>
            ELSE /\ Raise("OSError", "read_files")
                 /\ UNCHANGED <<colors_data, subject_matters_data, dates_data, idx>>
    /\ UNCHANGED <<conn, db, tx, auto, subject_matters, commits, inserted, db0>>
    /\ UNCHANGED <<csvVars, apiVars>>

\* mutant: the last matching dates row wins
AirDateLastMatch(dates, title) ==
    LET Match(date) == strip(date["Title"]) = title
        matches == SelectSeq(dates, Match)
    IN  IF matches = <<>> THEN None ELSE Some(matches[Len(matches)]["Date"])

\* next((date['Date'] for date in dates_data if date['Title'].strip() == title), None)
AirDate(dates, title) ==
    LET Match(date) == strip(date["Title"]) = title
        matches == SelectSeq(dates, Match)
    IN  IF matches = <<>> THEN None ELSE Some(Head(matches)["Date"])

EpisodeRow(id, row, dates) ==
    [episode_id |-> id,
     title |-> row["painting_title"],
     season_number |-> int(row["season"]),
     episode_number |-> int(row["episode"]),
     painting_img_src |-> row["img_src"],
     painting_yt_src |-> row["youtube_src"],
     air_date |-> AirDate(dates, row["painting_title"])]

\* one pass of the for loop of a phase: the row is inserted or the statement fails
InsertOrFail(table, row, phase) ==
    \E ok \in BOOLEAN :
        IF ok
        THEN /\ tx' = Execute(tx, table, row)
             /\ inserted' = Execute(inserted, table, row)
             /\ auto' = [auto EXCEPT ![table] = @ + 1]
             /\ UNCHANGED <<pc, error, failed_phase>>
        ELSE /\ Raise("MySQLError", phase)
             /\ UNCHANGED <<tx, inserted, auto>>

\* mutant: the phase ends without connection.commit()
CommitPhaseMissing(phase, next) ==
    /\ pc' = next
    /\ UNCHANGED <<db, tx, commits, error, failed_phase>>

\* connection.commit() at the end of a phase, then the next phase starts
CommitPhase(phase, next) ==
    \E ok \in BOOLEAN :
        IF ok
        THEN /\ db' = Commit(db, tx)
             /\ tx' = EmptyTables
             /\ commits' = Append(commits, phase)
             /\ pc' = next
             /\ UNCHANGED <<error, failed_phase>>
        ELSE /\ Raise("MySQLError", phase)
             /\ UNCHANGED <<db, tx, commits>>

\* mutant: a row whose season or episode is not numeric is skipped, the loop goes on
ImportEpisodesRowSkipping ==
    /\ pc = "episodes"
    /\ idx <= Len(colors_data)
    /\ LET row == colors_data[idx] IN
        IF IntRaises(row["season"]) \/ IntRaises(row["episode"])
        THEN /\ idx' = idx + 1
             /\ UNCHANGED <<tx, inserted, auto, pc, error, failed_phase>>
        ELSE /\ InsertOrFail("episodes", EpisodeRow(auto["episodes"], row, dates_data),
                             "episodes")
             /\ idx' = IF pc' = "raised" THEN idx ELSE idx + 1
    /\ UNCHANGED <<conn, db, colors_data, subject_matters_data, dates_data,
                   subject_matters, commits, db0>>
    /\ UNCHANGED <<csvVars, apiVars>>

\* mutant: one Episode per distinct (title, season, episode), later rows are passed over
ImportEpisodesRowDistinct ==
    /\ pc = "episodes"
    /\ idx <= Len(colors_data)
    /\ LET row == colors_data[idx]
           Same(k) == /\ colors_data[k]["painting_title"] = row["painting_title"]
                      /\ colors_data[k]["season"] = row["season"]
                      /\ colors_data[k]["episode"] = row["episode"]
       IN
        IF IntRaises(row["season"]) \/ IntRaises(row["episode"])
        THEN /\ Raise("ValueError", "episodes")
             /\ UNCHANGED <<tx, inserted, auto, idx>>
        ELSE IF \E k \in 1..(idx - 1) : Same(k)
        THEN /\ idx' = idx + 1
             /\ UNCHANGED <<tx, inserted, auto, pc, error, failed_phase>>
        ELSE /\ InsertOrFail("episodes", EpisodeRow(auto["episodes"], row, dates_data),
                             "episodes")
             /\ idx' = IF pc' = "raised" THEN idx ELSE idx + 1
    /\ UNCHANGED <<conn, db, colors_data, subject_matters_data, dates_data,
                   subject_matters, commits, db0>>
    /\ UNCHANGED <<csvVars, apiVars>>

\* _import_episodes, one color row
ImportEpisodesRow ==
    /\ pc = "episodes"
    /\ idx <= Len(colors_data)
    /\ LET row == colors_data[idx] IN
        IF IntRaises(row["season"]) \/ IntRaises(row["episode"])
        THEN /\ Raise("ValueError", "episodes")
             /\ UNCHANGED <<tx, inserted, auto, idx>>
        ELSE /\ InsertOrFail("episodes", EpisodeRow(auto["episodes"], row, dates_data),
                             "episodes")
             /\ idx' = IF pc' = "raised" THEN idx ELSE idx + 1
    /\ UNCHANGED <<conn, db, colors_data, subject_matters_data, dates_data,
                   subject_matters, commits, db0>>
    /\ UNCHANGED <<csvVars, apiVars>>

\* _import_episodes, the commit after the loop
ImportEpisodesCommit ==
    /\ pc = "episodes"
    /\ idx > Len(colors_data)
    /\ CommitPhase("episodes", "colors")
    /\ idx' = IF pc' = "raised" THEN idx ELSE 1
    /\ UNCHANGED <<conn, auto, colors_data, subject_matters_data, dates_data,
                   subject_matters, inserted, db0>>
    /\ UNCHANGED <<csvVars, apiVars>>

RECURSIVE Distinct(_)
Distinct(s) ==
    IF s = <<>> THEN <<>>
    ELSE LET front == Distinct(SubSeq(s, 1, Len(s) - 1))
         IN  IF s[Len(s)] \in Range(front) THEN front ELSE Append(front, s[Len(s)])

\* mutant: each (name, hex) pair once, as the subject matters are
ColorNamesHexDistinct(data) ==
    Distinct([i \in 1..Len(data) |-> <<data[i]["colors"], data[i]["color_hex"]>>])

\* color_names_hex = [(row['colors'], row['color_hex']) for row in colors_data]
ColorNamesHex(data) == [i \in 1..Len(data) |-> <<data[i]["colors"], data[i]["color_hex"]>>]

\* _import_colors, one pair
ImportColorsRow ==
    /\ pc = "colors"
    /\ idx <= Len(ColorNamesHex(colors_data))
    /\ LET pair == ColorNamesHex(colors_data)[idx] IN
        InsertOrFail("colors",
                     [color_id |-> auto["colors"], color_name |-> pair[1],
                      color_hex |-> pair[2]],
                     "colors")
    /\ idx' = IF pc' = "raised" THEN idx ELSE idx + 1
    /\ UNCHANGED <<conn, db, colors_data, subject_matters_data, dates_data,
                   subject_matters, commits, db0>>
    /\ UNCHANGED <<csvVars, apiVars>>

\* _import_colors, the commit after the loop
ImportColorsCommit ==
    /\ pc = "colors"
    /\ idx > Len(ColorNamesHex(colors_data))
    /\ CommitPhase("colors", "subject_matters")
    /\ idx' = IF pc' = "raised" THEN idx ELSE 1
    /\ UNCHANGED <<conn, auto, colors_data, subject_matters_data, dates_data,
                   subject_matters, inserted, db0>>
    /\ UNCHANGED <<csvVars, apiVars>>

\* mutant: the tokens are stripped before they enter the set
SubjectSetStripped(data) ==
    UNION {{strip(t) : t \in Range(split(data[i]["EPISODE"], ";"))} : i \in 1..Len(data)}

\* subject_matters = set(); for row: subject_matters.update(row['EPISODE'].split(';'))
SubjectSet(data) == UNION {Range(split(data[i]["EPISODE"], ";")) : i \in 1..Len(data)}

\* _import_subject_matters, the first loop
CollectSubjectMatters ==
    /\ pc = "subject_matters"
    /\ subject_matters' = SubjectSet(subject_matters_data)
    /\ pc' = "subject_insert"
    /\ UNCHANGED <<conn, db, tx, auto, colors_data, subject_matters_data, dates_data, idx,
                   error, failed_phase, commits, inserted, db0>>
    /\ UNCHANGED <<csvVars, apiVars>>

\* _import_subject_matters, one pass of the second loop: set order is arbitrary
ImportSubjectMattersRow ==
    /\ pc = "subject_insert"
    /\ \E subject \in subject_matters :
        /\ InsertOrFail("subject_matters",
                        [subject_matter_id |-> auto["subject_matters"],
                         subject_matter_name |-> subject],
                        "subject_matters")
        /\ subject_matters' = IF pc' = "raised" THEN subject_matters
                              ELSE subject_matters \ {subject}
    /\ UNCHANGED <<conn, db, colors_data, subject_matters_data, dates_data, idx,
                   commits, db0>>
    /\ UNCHANGED <<csvVars, apiVars>>

\* _import_subject_matters, the commit after the loop
ImportSubjectMattersCommit ==
    /\ pc = "subject_insert"
    /\ subject_matters = {}
    /\ CommitPhase("subject_matters", "associations")
    /\ UNCHANGED <<conn, auto, colors_data, subject_matters_data, dates_data, idx,
                   subject_matters, inserted, db0>>
    /\ UNCHANGED <<csvVars, apiVars>>

\* import_data, the calls self._import_episode_colors(...) and
\* self._import_episode_subject_matters(...): attribute lookup on the instance
ImportAssociations ==
    /\ pc = "associations"
    /\ IF "_import_episode_colors" \notin ImporterMethods
       THEN Raise("AttributeError", "episode_colors")
       ELSE IF "_import_episode_subject_matters" \notin ImporterMethods
       THEN Raise("AttributeError", "episode_subject_matters")
       ELSE /\ pc' = "returned"
            /\ UNCHANGED <<error, failed_phase>>
    /\ UNCHANGED <<conn, db, tx, auto, colors_data, subject_matters_data, dates_data, idx,
                   subject_matters, commits, inserted, db0>>
    /\ UNCHANGED <<csvVars, apiVars>>

\* DatabaseManager.disconnect: closing drops what the connection has not committed
disconnect(c) == IF c = "open" THEN "closed" ELSE c

\* DatabaseManager.__exit__ at the end of main's with block, normal or exceptional
Exit ==
    /\ pc \in {"raised", "returned"}
    /\ conn' = disconnect(conn)
    /\ tx' = EmptyTables
    /\ pc' = IF error = "none" THEN "exited" ELSE "except"
    /\ UNCHANGED <<db, auto, colors_data, subject_matters_data, dates_data, idx,
                   subject_matters, error, failed_phase, commits, inserted, db0>>
    /\ UNCHANGED <<csvVars, apiVars>>

\* main: except Exception as e: print(...)
MainExcept ==
    /\ pc = "except"
    /\ pc' = "swallowed"
    /\ UNCHANGED <<conn, db, tx, auto, colors_data, subject_matters_data, dates_data, idx,
                   subject_matters, error, failed_phase, commits, inserted, db0>>
    /\ UNCHANGED <<csvVars, apiVars>>

Next ==
    \/ Connect
    \/ SetupTables
    \/ ReadFiles
    \/ ImportEpisodesRow
    \/ ImportEpisodesCommit
    \/ ImportColorsRow
    \/ ImportColorsCommit
    \/ CollectSubjectMatters
    \/ ImportSubjectMattersRow
    \/ ImportSubjectMattersCommit
    \/ ImportAssociations
    \/ Exit
    \/ MainExcept

Spec == Init /\ [][Next]_vars

(***************************************************************************)
(* CSVReader.read_file on its own                                          *)
(***************************************************************************)
CsvFileRows ==
    { <<>>,
      <<<<"a">>>>,
      <<<<"a">>, <<"b">>>>,
      <<<<"b">>, <<"b">>>>,
      <<<<"a">>, <<"b">>, <<"c">>>> }

CsvColumnLists == {None, Some(<<"k">>), Some(<<"k", "v">>)}

InitCsv ==
    /\ pc = "read_file"
    /\ conn = "none"
    /\ db = EmptyTables
    /\ db0 = db
    /\ tx = EmptyTables
    /\ auto = NextIds(db)
    /\ colors_data = <<>>
    /\ subject_matters_data = <<>>
    /\ dates_data = <<>>
    /\ idx = 0
    /\ subject_matters = {}
    /\ error = "none"
    /\ failed_phase = "none"
    /\ commits = <<>>
    /\ inserted = EmptyTables
    /\ csv_file \in SeqsUpTo(CsvFileRows, MaxCsvRows)
    /\ csv_columns \in CsvColumnLists
    /\ csv_opened \in BOOLEAN
    /\ csv_result = None
    /\ IdleApi

CallReadFile ==
    /\ pc = "read_file"
    /\ csv_result = None
    /\ csv_result' = Some(read_file(csv_file, csv_columns, csv_opened))
    /\ UNCHANGED <<csv_file, csv_columns, csv_opened>>
    /\ UNCHANGED <<importVars, apiVars>>

NextCsv == CallReadFile

SpecCsv == InitCsv /\ [][NextCsv]_vars

(***************************************************************************)
(* app.py: the two routes, each on a connection of its own                 *)
(***************************************************************************)
ApiFaults == {"none", "connect", "execute"}

\* the episodes tables an import can leave: one row per valid color row, ids ascending
ApiEpisodeTables ==
    { [i \in 1..Len(c) |-> EpisodeRow(first + i - 1, c[i], d)] :
        first \in 1..2,
        c \in { l \in { read_file(f, Some(ColorsColumns), TRUE).data :
                            f \in SeqsUpTo(ColorFileRows, MaxColorRows) } :
                   \A i \in 1..Len(l) :
                       ~IntRaises(l[i]["season"]) /\ ~IntRaises(l[i]["episode"]) },
        d \in { read_file(f, Some(DatesColumns), TRUE).data :
                   f \in SeqsUpTo(DateFileRows, MaxDateRows) } }

InitApi ==
    /\ pc = "serving"
    /\ conn = "none"
    /\ \E t \in ApiEpisodeTables : db = [EmptyTables EXCEPT !["episodes"] = t]
    /\ db0 = db
    /\ tx = EmptyTables
    /\ auto = NextIds(db)
    /\ colors_data = <<>>
    /\ subject_matters_data = <<>>
    /\ dates_data = <<>>
    /\ idx = 0
    /\ subject_matters = {}
    /\ error = "none"
    /\ failed_phase = "none"
    /\ commits = <<>>
    /\ inserted = EmptyTables
    /\ IdleCsv
    /\ IdleApi

\* get_episodes(): SELECT * FROM episodes
get_episodes_response(episodes, fault) ==
    IF fault # "none"
    THEN [status |-> 500, body |-> [error |-> fault]]
    ELSE [status |-> 200, body |-> episodes]

\* mutant: a storage failure is answered as a missing episode
get_episode_response_not_found(episodes, episode_id, fault) ==
    LET Selected(row) == row.episode_id = episode_id
        rows == SelectSeq(episodes, Selected)
        result == IF rows = <<>> THEN None ELSE Some(Head(rows))
    IN  IF fault = "none" /\ result # None
        THEN [status |-> 200, body |-> result[1]]
        ELSE [status |-> 404, body |-> [error |-> "Episode not found"]]

\* get_episode(episode_id): SELECT * FROM episodes WHERE episode_id = %s, fetchone()
get_episode_response(episodes, episode_id, fault) ==
    LET Selected(row) == row.episode_id = episode_id
        rows == SelectSeq(episodes, Selected)
        result == IF rows = <<>> THEN None ELSE Some(Head(rows))
    IN  IF fault # "none"
        THEN [status |-> 500, body |-> [error |-> fault]]
        ELSE IF result # None
        THEN [status |-> 200, body |-> result[1]]
        ELSE [status |-> 404, body |-> [error |-> "Episode not found"]]

GetEpisodes ==
    /\ pc = "serving"
    /\ \E fault \in ApiFaults :
        /\ request' = Some([route |-> "/api/episodes", episode_id |-> 0, fault |-> fault])
        /\ response' = Some(get_episodes_response(db["episodes"], fault))
    /\ UNCHANGED <<importVars, csvVars>>

GetEpisode ==
    /\ pc = "serving"
    /\ \E episode_id \in 0..MaxEpisodeId, fault \in ApiFaults :
        /\ request' = Some([route |-> "/api/episodes/<int:episode_id>",
                            episode_id |-> episode_id, fault |-> fault])
        /\ response' = Some(get_episode_response(db["episodes"], episode_id, fault))
    /\ UNCHANGED <<importVars, csvVars>>

NextApi == GetEpisodes \/ GetEpisode

SpecApi == InitApi /\ [][NextApi]_vars

(***************************************************************************)
(* Properties                                                              *)
(***************************************************************************)
PhaseDone(phase) == \E i \in 1..Len(commits) : commits[i] = phase

Failed == error # "none"

\* the import phases in the order import_data runs them, 4 being the associations
PhaseNumber(phase) ==
    CASE phase = "episodes" -> 1
      [] phase = "colors" -> 2
      [] phase = "subject_matters" -> 3
      [] phase \in {"episode_colors", "episode_subject_matters"} -> 4
      [] OTHER -> 0

PhaseTable(k) == CASE k = 1 -> "episodes" [] k = 2 -> "colors" [] k = 3 -> "subject_matters"

\* C2: when phase k fails, the rows every earlier phase inserted are committed, in full,
\* and stay so through the rollback of phase k and to the end of the run, which the
\* failure ends (no later phase starts).
C2_PriorPhasesStayCommitted ==
    Failed /\ PhaseNumber(failed_phase) >= 1 =>
        /\ pc \in {"raised", "except", "swallowed"}
        /\ \A j \in 1..(PhaseNumber(failed_phase) - 1) :
            /\ inserted[PhaseTable(j)] # <<>> => PhaseDone(PhaseTable(j))
            /\ db[PhaseTable(j)] = db0[PhaseTable(j)] \o inserted[PhaseTable(j)]
        /\ \A j \in PhaseNumber(failed_phase)..3 : ~PhaseDone(PhaseTable(j))

\* the color phase failed at its second row, after the episode phase committed two rows
C2_Witness ==
    /\ pc = "swallowed"
    /\ failed_phase = "colors"
    /\ Len(inserted["colors"]) = 1
    /\ Len(inserted["episodes"]) = 2
    /\ db["episodes"] = db0["episodes"] \o inserted["episodes"]
    /\ db["colors"] = db0["colors"]

BadRow(row) == IntRaises(row["season"]) \/ IntRaises(row["episode"])

ValidRows(data) == {i \in 1..Len(data) : ~BadRow(data[i])}

C4_OneEpisodePerColorRow ==
    (PhaseDone("episodes") /\ db0["episodes"] = <<>>) =>
        /\ Len(db["episodes"]) = Len(colors_data)
        /\ \A i \in 1..Len(colors_data) :
            /\ db["episodes"][i].episode_id = i
            /\ db["episodes"][i].title = colors_data[i]["painting_title"]
            /\ ~IntRaises(colors_data[i]["season"])
            /\ db["episodes"][i].season_number = int(colors_data[i]["season"])
            /\ db["episodes"][i].episode_number = int(colors_data[i]["episode"])
            /\ db["episodes"][i].painting_img_src = colors_data[i]["img_src"]
            /\ db["episodes"][i].painting_yt_src = colors_data[i]["youtube_src"]

\* two color rows of the same episode became two Episode records
C4_Witness ==
    /\ PhaseDone("episodes")
    /\ db0["episodes"] = <<>>
    /\ Len(colors_data) = 2
    /\ colors_data[1] = colors_data[2]
    /\ Len(db["episodes"]) = 2
    /\ db["episodes"][1].title = db["episodes"][2].title

\* C5: the air date of the Episode made from a color row with title T is the Date of the
\* first dates row whose stripped Title is T, and null, without an error, when there is none.
C5_AirDateIsFirstMatch ==
    \A i \in 1..Len(inserted["episodes"]) :
        LET T == colors_data[i]["painting_title"]
            hits == {j \in 1..Len(dates_data) : strip(dates_data[j]["Title"]) = T}
            air_date == inserted["episodes"][i].air_date
        IN  /\ inserted["episodes"][i].title = T
            /\ hits = {} => air_date = None
            /\ hits # {} =>
                \E j \in hits : (\A k \in hits : j <= k) /\ air_date = Some(dates_data[j]["Date"])

\* two dates rows match the title after stripping, with different dates; the first was taken
C5_Witness ==
    /\ PhaseDone("episodes")
    /\ Len(dates_data) = 2
    /\ dates_data[1]["Title"] # dates_data[2]["Title"]
    /\ strip(dates_data[1]["Title"]) = strip(dates_data[2]["Title"])
    /\ \E i \in 1..Len(inserted["episodes"]) :
        /\ inserted["episodes"][i].title = strip(dates_data[1]["Title"])
        /\ inserted["episodes"][i].air_date = Some(dates_data[1]["Date"])
        /\ inserted["episodes"][i].air_date # Some(dates_data[2]["Date"])

Tokens == UNION {Range(split(subject_matters_data[i]["EPISODE"], ";")) :
                    i \in 1..Len(subject_matters_data)}

\* C6: from an empty subject_matters table, once the subject-matter phase has committed,
\* the table holds exactly one record for each distinct untrimmed token of the rows'
\* values split on ';', and no other record.
C6_OneSubjectMatterPerToken ==
    (PhaseDone("subject_matters") /\ db0["subject_matters"] = <<>>) =>
        /\ {db["subject_matters"][i].subject_matter_name :
                i \in 1..Len(db["subject_matters"])} = Tokens
        /\ Len(db["subject_matters"]) = Cardinality(Tokens)

\* two rows share the token "a" and one holds " a" and the empty token as well
C6_Witness ==
    /\ PhaseDone("subject_matters")
    /\ db0["subject_matters"] = <<>>
    /\ Len(subject_matters_data) = 2
    /\ Tokens = {<<"a">>, <<"b">>, <<" ", "a">>, <<>>}
    /\ Len(db["subject_matters"]) = 4

\* C7: read_file with n expected columns returns, in file order, one record for each file
\* row of n fields, mapping column k to field k, and nothing for any other row; it raises
\* only when the file cannot be opened, never for a field count.
C7_ReadFileKeepsMatchingRows ==
    (csv_result # None /\ csv_columns # None) =>
        LET columns == csv_columns[1]
            kept == {i \in 1..Len(csv_file) : Len(csv_file[i]) = Len(columns)}
            Rank(i) == Cardinality({j \in kept : j <= i})
            result == csv_result[1]
        IN  IF csv_opened
            THEN /\ result.raised = "none"
                 /\ Len(result.data) = Cardinality(kept)
                 /\ \A i \in kept : \A k \in 1..Len(columns) :
                        result.data[Rank(i)][columns[k]] = csv_file[i][k]
            ELSE result.raised = "OSError"

\* a file of three rows, two of them with another field count than the two columns asked
C7_Witness ==
    /\ csv_result # None
    /\ csv_columns = Some(<<"k", "v">>)
    /\ csv_opened
    /\ Len(csv_file) = 3
    /\ Len(csv_file[1]) = 3
    /\ Len(csv_file[2]) = 2
    /\ Len(csv_file[3]) = 1
    /\ Len(csv_result[1].data) = 1

IsEpisodeRequest(r) == r # None /\ r[1].route = "/api/episodes/<int:episode_id>"

\* C8: every step that answers GET /api/episodes/{id} leaves the tables as they were and
\* answers 500 with an error body exactly when the storage operation failed, otherwise 200
\* with the row of that id when there is one, otherwise 404 "Episode not found".
C8_Step ==
    IsEpisodeRequest(request') =>
        LET req == request'[1]
            res == response'[1]
            found == {i \in 1..Len(db["episodes"]) :
                         db["episodes"][i].episode_id = req.episode_id}
        IN  /\ db' = db
            /\ tx' = tx
            /\ res.status \in {200, 404, 500}
            /\ res.status = 500 <=> req.fault # "none"
            /\ res.status = 500 => DOMAIN res.body = {"error"}
            /\ res.status = 200 <=> (req.fault = "none" /\ found # {})
            /\ res.status = 200 => \E i \in found : res.body = db["episodes"][i]
            /\ res.status = 404 <=> (req.fault = "none" /\ found = {})
            /\ res.status = 404 => res.body = [error |-> "Episode not found"]

C8_GetEpisodeOutcomes == [][C8_Step]_vars

\* the three outcomes, each seen: here the failure while a row of that id exists
C8_Witness ==
    /\ IsEpisodeRequest(request)
    /\ request[1].fault = "execute"
    /\ \E i \in 1..Len(db["episodes"]) : db["episodes"][i].episode_id = request[1].episode_id
    /\ response[1].status = 500

\* C9: from an empty colors table, once the color phase has committed, the table holds one
\* Color per color row, in file order, with that row's name and hex, under distinct ids,
\* equal rows included.
C9_OneColorPerColorRow ==
    (PhaseDone("colors") /\ db0["colors"] = <<>>) =>
        /\ Len(db["colors"]) = Len(colors_data)
        /\ \A i \in 1..Len(colors_data) :
            /\ db["colors"][i].color_name = colors_data[i]["colors"]
            /\ db["colors"][i].color_hex = colors_data[i]["color_hex"]
        /\ \A i, j \in 1..Len(db["colors"]) :
            i # j => db["colors"][i].color_id # db["colors"][j].color_id

\* two color rows with the same name and hex became two Color records
C9_Witness ==
    /\ PhaseDone("colors")
    /\ db0["colors"] = <<>>
    /\ Len(colors_data) = 2
    /\ colors_data[1]["colors"] = colors_data[2]["colors"]
    /\ colors_data[1]["color_hex"] = colors_data[2]["color_hex"]
    /\ Len(db["colors"]) = 2
    /\ db["colors"][1].color_id # db["colors"][2].color_id

IsPrefix(s, t) == Len(s) <= Len(t) /\ \A i \in 1..Len(s) : s[i] = t[i]

\* C10: the commits happen in the order schema, episodes, colors, subject matters;
\* import_data never returns normally; once the subject-matter phase has committed, the
\* association call raises AttributeError for _import_episode_colors, the two association
\* tables have no rows, and main swallows that error only after the connection is closed.
C10_AssociationCallRaises ==
    /\ IsPrefix(commits, <<"schema", "episodes", "colors", "subject_matters">>)
    /\ pc \notin {"returned", "exited"}
    /\ db["episode_colors"] = <<>> /\ db["episode_subject_matters"] = <<>>
    /\ tx["episode_colors"] = <<>> /\ tx["episode_subject_matters"] = <<>>
    /\ PhaseDone("subject_matters") =>
        /\ pc \in {"associations", "raised", "except", "swallowed"}
        /\ pc # "associations" => error = "AttributeError" /\ failed_phase = "episode_colors"
        /\ pc \in {"except", "swallowed"} => conn = "closed"
        /\ pc \in {"associations", "raised"} => conn = "open"

\* a run whose three phases committed rows ended with the AttributeError swallowed
C10_Witness ==
    /\ pc = "swallowed"
    /\ commits = <<"schema", "episodes", "colors", "subject_matters">>
    /\ error = "AttributeError"
    /\ conn = "closed"
    /\ Len(inserted["episodes"]) = 2
    /\ Len(inserted["subject_matters"]) >= 2
    /\ db["episode_colors"] = <<>>

====
